---- MODULE Spec2Model ----
(***************************************************************************)
(* The results-aggregation and reporting scripts of .github/scripts:       *)
(*   analyze-results.py   (the summary tool),                              *)
(*   check-thresholds.py  (the threshold gate),                            *)
(*   generate-report.py   (the comparison tool).                           *)
(*                                                                         *)
(* A Python dict read with .get(key, default) is a record whose fields are *)
(* options: None (the key is absent) or Some(v).  A value json.load        *)
(* returns is [kind, doc]: kind "object" for a JSON mapping (doc holds its *)
(* fields), kind "array" for valid JSON that is no mapping.                *)
(***************************************************************************)
EXTENDS Integers, Sequences, FiniteSets, TLC

VARIABLES
    tool,       \* the entry point that runs: "summary", "threshold", "comparison"
    minScore,   \* --min-score of the threshold gate
    files,      \* contents of the *.json files glob has yielded so far, in discovery order
    results,    \* the list load_results builds / the argument of calculate_stats
    pc,         \* position of the run
    stats,      \* the dict calculate_stats builds
    folded,     \* number of results the loop of calculate_stats has processed
    total_score, total_pass_rate,   \* running sums of calculate_stats
    failures,   \* the list check_thresholds returns
    output,     \* the --output file: None until written, then Some(report)
    raised,     \* the uncaught exception that ended the run, or "none"
    exitCode    \* process exit status, meaningful once pc = "exit"

vars == <<tool, minScore, files, results, pc, stats, folded, total_score,
          total_pass_rate, failures, output, raised, exitCode>>

----------------------------------------------------------------------------
(* Bounds of the model *)

MaxFiles == 2
MaxTests == 2
MaxSamples == 3

----------------------------------------------------------------------------
(* Options and dict access *)

None == <<>>
Some(v) == <<v>>

\* d.get(key, default) on the option stored under the key
Get(opt, default) == IF opt = None THEN default ELSE opt[1]

\* sequences over S of length at most n
SeqUpTo(S, n) == UNION {[1..k -> S] : k \in 0..n}

RECURSIVE SumSeq(_)
SumSeq(s) == IF s = <<>> THEN 0 ELSE s[1] + SumSeq(Tail(s))

\* Lexicographic order of the identifier strings the model uses
\* (Python compares str by code point).
LexOrder == <<"claude", "gpt", "t1", "unknown">>
Rank(s) == CHOOSE i \in 1..Len(LexOrder) : LexOrder[i] = s
StrLt(a, b) == Rank(a) < Rank(b)

----------------------------------------------------------------------------
(* The data model: ResultDocument, TestOutcome, validation mapping *)

Opt(S) == {None} \cup {Some(v) : v \in S}

Doc(m, tt, p, f, avg, rate, ts) ==
    [model |-> m, totalTests |-> tt, passed |-> p, failed |-> f,
     averageScore |-> avg, passRate |-> rate, tests |-> ts]

EmptyDoc == Doc(None, None, None, None, None, None, None)

Test(id, sc, ok, val) ==
    [testId |-> id, score |-> sc, passed |-> ok, output |-> None, validation |-> val]

Validation(em, ex, ff, fm) ==
    [expectedMatches |-> em, expectedMissing |-> ex,
     forbiddenFound |-> ff, forbiddenMissing |-> fm]

\* What one discovered file holds.
Object(d)  == [kind |-> "object", doc |-> d]      \* a JSON mapping
Array      == [kind |-> "array", doc |-> EmptyDoc]  \* valid JSON, not a mapping
Malformed  == [kind |-> "malformed", doc |-> EmptyDoc]   \* json.JSONDecodeError
Unreadable == [kind |-> "unreadable", doc |-> EmptyDoc]  \* OSError, UnicodeDecodeError

BadFiles == {Array, Malformed, Unreadable}

----------------------------------------------------------------------------
(* Inputs of the runs *)

MinScores == {0, 90}
GateValues == {89, 90}

\* documents as the threshold gate reads them: model, averageScore, passRate
ThresholdDocs ==
    {Doc(m, None, None, None, a, r, None) :
        m \in Opt({"gpt"}), a \in Opt(GateValues), r \in Opt(GateValues)}

\* TestOutcomes: every field absent; a passing test t1
BareTest == Test(None, None, None, None)
PassingTest == Test(Some("t1"), Some(90), Some(TRUE), None)
\* a failing test t1 whose validation mapping holds two of its four keys
FailingTest ==
    Test(Some("t1"), Some(50), Some(FALSE),
         Some(Validation(None, Some(<<"p1">>), Some(<<"p2">>), None)))

\* documents as the summary tool reads them in a run: no field but tests,
\* or a model with its pass rate
SummaryDocs ==
    {Doc(run[1], None, None, None, None, run[2], ts) :
        run \in {<<None, None>>, <<Some("gpt"), Some(100)>>},
        ts \in Opt(SeqUpTo({BareTest, PassingTest}, MaxTests))}

\* documents as the comparison tool reads them: model and tests
ComparisonDocs ==
    {Doc(m, None, None, None, None, None, ts) :
        m \in Opt({"gpt"}),
        ts \in Opt(SeqUpTo({BareTest, FailingTest}, MaxTests))}
    \cup
    {Doc(Some("claude"), None, None, None, None, None, Some(ts)) :
        ts \in SeqUpTo({PassingTest, FailingTest}, MaxTests)}

FilePool(t) ==
    BadFiles \cup
    {Object(d) : d \in
        IF t = "threshold" THEN ThresholdDocs
        ELSE IF t = "summary" THEN SummaryDocs
        ELSE ComparisonDocs}

Tools == {"summary", "threshold", "comparison"}

(* Inputs of calculate_stats and generate_summary_markdown called directly *)

\* a run's document-level numbers
RunNumbers ==
    {<<None, None, None, None, None>>,
     <<Some(2), Some(1), Some(1), Some(85), Some(50)>>,
     <<Some(2), Some(2), Some(0), Some(90), Some(100)>>}

StatsModelDocs ==
    {Doc(m, n[1], n[2], n[3], n[4], n[5], None) :
        m \in Opt({"claude", "gpt"}), n \in RunNumbers}

StatsTestDocs ==
    {Doc(None, None, None, None, None, None, ts) :
        ts \in Opt(SeqUpTo({BareTest, PassingTest}, MaxTests))}
    \cup
    {Doc(Some("gpt"), None, None, None, None, None, Some(ts)) :
        ts \in SeqUpTo({FailingTest}, MaxTests)}

\* one sample of test t1 per document
ScoreValues == {40, 50, 60, 90, 100}
StatsSampleDocs ==
    {Doc(None, None, None, None, None, None,
         Some(<<Test(Some("t1"), sc, Some(TRUE), None)>>)) : sc \in Opt(ScoreValues)}

StatsInputs ==
    {[i \in DOMAIN ds |-> Object(ds[i])] :
        ds \in SeqUpTo(StatsModelDocs, MaxFiles)
               \cup SeqUpTo(StatsTestDocs, MaxFiles)
               \cup SeqUpTo(StatsSampleDocs, MaxSamples)}

----------------------------------------------------------------------------
(* load_results: the same function in the three scripts *)

\* json.load succeeds on valid JSON, whatever its shape
Parses(f) == f.kind \in {"object", "array"}

\* One iteration of the loop over glob's paths: the parsed value is appended,
\* a file that raises is reported (or silently passed over) and skipped.
LoadFile ==
    /\ pc = "load"
    /\ Len(files) < MaxFiles
    /\ \E f \in FilePool(tool) :
        /\ files' = Append(files, f)
        /\ results' = IF Parses(f) THEN Append(results, f) ELSE results
    /\ UNCHANGED <<tool, minScore, pc, stats, folded, total_score,
                   total_pass_rate, failures, output, raised, exitCode>>

\* glob is exhausted: load_results returns
LoadReturn ==
    /\ pc = "load"
    /\ pc' = "main"
    /\ UNCHANGED <<tool, minScore, files, results, stats, folded, total_score,
                   total_pass_rate, failures, output, raised, exitCode>>

----------------------------------------------------------------------------
(* check-thresholds.py *)

\* result.get(...) on a value that is no dict raises AttributeError
IsDict(r) == r.kind = "object"
AllDicts(rs) == \A i \in 1..Len(rs) : IsDict(rs[i])

\* (variant: the comparison taken as "not above")
ScoreNotAbove(value, min_score) == value <= min_score

\* lines 36 and 45: strictly below the threshold
ScoreBelow(value, min_score) == value < min_score

\* the body of the loop of check_thresholds for one result
DocFailures(r, min_score) ==
    LET model == Get(r.doc.model, "unknown")
        avg_score == Get(r.doc.averageScore, 0)
        pass_rate == Get(r.doc.passRate, 0)
    IN  (IF ScoreBelow(avg_score, min_score)
         THEN <<[model |-> model, type |-> "score",
                 value |-> avg_score, threshold |-> min_score]>>
         ELSE <<>>)
        \o
        (IF ScoreBelow(pass_rate, min_score)
         THEN <<[model |-> model, type |-> "pass_rate",
                 value |-> pass_rate, threshold |-> min_score]>>
         ELSE <<>>)

RECURSIVE check_thresholds(_, _)
check_thresholds(rs, min_score) ==
    IF rs = <<>> THEN <<>>
    ELSE DocFailures(Head(rs), min_score) \o check_thresholds(Tail(rs), min_score)

\* main of check-thresholds.py after load_results
ThresholdMain ==
    /\ pc = "main"
    /\ tool = "threshold"
    /\ pc' = "exit"
    /\ IF results = <<>>
       THEN /\ exitCode' = 0
            /\ UNCHANGED <<failures, raised>>
       ELSE IF ~AllDicts(results)
       THEN /\ raised' = "AttributeError"
            /\ exitCode' = 1
            /\ UNCHANGED failures
       ELSE /\ failures' = check_thresholds(results, minScore)
            /\ exitCode' = IF failures' # <<>> THEN 1 ELSE 0
            /\ UNCHANGED raised
    /\ UNCHANGED <<tool, minScore, files, results, stats, folded, total_score,
                   total_pass_rate, output>>

----------------------------------------------------------------------------
(* Python built-ins the scripts use *)

\* round(num / den) for num >= 0, den > 0: Python 3 rounds a half to the even integer
Round(num, den) ==
    LET q == num \div den
        r == num % den
    IN  IF 2 * r < den THEN q
        ELSE IF 2 * r > den THEN q + 1
        ELSE IF q % 2 = 0 THEN q ELSE q + 1

\* sorted(s, key=...): a stable sort; keys[i] is the integer key of s[i]
StableSort(s, keys) ==
    LET Insert(srt, x) ==
            LET later == {i \in 1..Len(srt) : keys[x] < keys[srt[i]]}
                at == IF later = {} THEN Len(srt) + 1
                      ELSE CHOOSE i \in later : \A j \in later : i <= j
            IN  SubSeq(srt, 1, at - 1) \o <<x>> \o SubSeq(srt, at, Len(srt))
        F[i \in 0..Len(s)] == IF i = 0 THEN <<>> ELSE Insert(F[i - 1], i)
    IN  [i \in 1..Len(s) |-> s[F[Len(s)][i]]]

RECURSIVE ProdSeq(_)
ProdSeq(s) == IF s = <<>> THEN 1 ELSE s[1] * ProdSeq(Tail(s))

\* (variant: sorted with reverse=True)
SortStringsReversed(s) == StableSort(s, [i \in 1..Len(s) |-> -Rank(s[i])])

\* sorted(s) on a list of str
SortStrings(s) == StableSort(s, [i \in 1..Len(s) |-> Rank(s[i])])

\* list(set): the elements in some order (the order does not survive sorted)
RECURSIVE ListOfSet(_)
ListOfSet(S) ==
    IF S = {} THEN <<>>
    ELSE LET x == CHOOSE y \in S : TRUE IN <<x>> \o ListOfSet(S \ {x})

\* set(list)
Range(s) == {s[i] : i \in 1..Len(s)}

\* A dict keeps its keys in insertion order.
EmptyDict == [order |-> <<>>, val |-> [k \in {} |-> 0]]
HasKey(d, k) == k \in Range(d.order)
DictPut(d, k, v) ==
    [order |-> IF HasKey(d, k) THEN d.order ELSE Append(d.order, k),
     val |-> [x \in Range(d.order) \cup {k} |-> IF x = k THEN v ELSE d.val[x]]]
\* defaultdict: a missing key reads as the factory's value
DictGet(d, k, factory) == IF HasKey(d, k) THEN d.val[k] ELSE factory

----------------------------------------------------------------------------
(* analyze-results.py: calculate_stats *)

NewModelStats ==
    [total_tests |-> 0, passed |-> 0, failed |-> 0, scores |-> <<>>, pass_rates |-> <<>>]

NewTestStats ==
    [models |-> <<>>, scores |-> <<>>, passed_count |-> 0, failed_count |-> 0]

\* the dict literal of lines 36-56
InitialStats(rs) ==
    [keys |-> {"by_model", "by_test", "overall"},
     by_model |-> EmptyDict,
     by_test |-> EmptyDict,
     overall |-> [total_results |-> Len(rs), models_tested |-> {},
                  average_score |-> 0, average_pass_rate |-> 0]]

\* `{}`, what calculate_stats returns for no results (line 34)
EmptyStats == [keys |-> {}]

\* (variant: the counters assigned, not added)
FoldModelAssigned(by_model, model, doc) ==
    LET ms == DictGet(by_model, model, NewModelStats)
    IN  DictPut(by_model, model,
            [total_tests |-> Get(doc.totalTests, 0),
             passed |-> Get(doc.passed, 0),
             failed |-> Get(doc.failed, 0),
             scores |-> Append(ms.scores, Get(doc.averageScore, 0)),
             pass_rates |-> Append(ms.pass_rates, Get(doc.passRate, 0))])

\* lines 66-71: the document's counters and rates go to its model's bucket
FoldModel(by_model, model, doc) ==
    LET ms == DictGet(by_model, model, NewModelStats)
    IN  DictPut(by_model, model,
            [total_tests |-> ms.total_tests + Get(doc.totalTests, 0),
             passed |-> ms.passed + Get(doc.passed, 0),
             failed |-> ms.failed + Get(doc.failed, 0),
             scores |-> Append(ms.scores, Get(doc.averageScore, 0)),
             pass_rates |-> Append(ms.pass_rates, Get(doc.passRate, 0))])

\* (variant: a test without `passed` counted neither as passed nor as failed)
FoldTestPassedRequired(by_test, model, test) ==
    LET test_id == Get(test.testId, "unknown")
        ts == DictGet(by_test, test_id, NewTestStats)
    IN  DictPut(by_test, test_id,
            [models |-> Append(ts.models, model),
             scores |-> Append(ts.scores, Get(test.score, 0)),
             passed_count |-> IF test.passed = Some(TRUE)
                              THEN ts.passed_count + 1 ELSE ts.passed_count,
             failed_count |-> IF test.passed = Some(FALSE)
                              THEN ts.failed_count + 1 ELSE ts.failed_count])

\* lines 78-85: one TestOutcome goes to its testId's bucket
FoldTest(by_test, model, test) ==
    LET test_id == Get(test.testId, "unknown")
        ts == DictGet(by_test, test_id, NewTestStats)
        ok == Get(test.passed, FALSE)
    IN  DictPut(by_test, test_id,
            [models |-> Append(ts.models, model),
             scores |-> Append(ts.scores, Get(test.score, 0)),
             passed_count |-> IF ok THEN ts.passed_count + 1 ELSE ts.passed_count,
             failed_count |-> IF ok THEN ts.failed_count ELSE ts.failed_count + 1])

RECURSIVE FoldTests(_, _, _)
FoldTests(by_test, model, tests) ==
    IF tests = <<>> THEN by_test
    ELSE FoldTests(FoldTest(by_test, model, Head(tests)), model, Tail(tests))

\* lines 61-85: one iteration of the loop, on acc = [stats, total_score, total_pass_rate]
FoldDoc(acc, r) ==
    LET doc == r.doc
        model == Get(doc.model, "unknown")
        st == acc.stats
    IN  [stats |->
            [st EXCEPT
                !.overall.models_tested = @ \cup {model},
                !.by_model = FoldModel(@, model, doc),
                !.by_test = FoldTests(@, model, Get(doc.tests, <<>>))],
         total_score |-> acc.total_score + Get(doc.averageScore, 0),
         total_pass_rate |-> acc.total_pass_rate + Get(doc.passRate, 0)]

\* lines 88-90
FinishStats(acc, rs) ==
    [acc.stats EXCEPT
        !.overall.average_score =
            IF rs # <<>> THEN Round(acc.total_score, Len(rs)) ELSE 0,
        !.overall.average_pass_rate =
            IF rs # <<>> THEN Round(acc.total_pass_rate, Len(rs)) ELSE 0,
        !.overall.models_tested = SortStrings(ListOfSet(@))]

RECURSIVE FoldDocs(_, _)
FoldDocs(acc, rs) ==
    IF rs = <<>> THEN acc ELSE FoldDocs(FoldDoc(acc, Head(rs)), Tail(rs))

\* calculate_stats on a list of dicts, as one function
calculate_stats(rs) ==
    IF rs = <<>> THEN EmptyStats
    ELSE FinishStats(
            FoldDocs([stats |-> InitialStats(rs), total_score |-> 0,
                      total_pass_rate |-> 0], rs), rs)

\* lines 33-59: the early return, or the initial dict and sums
StatsBegin ==
    /\ pc = "stats_begin"
    /\ IF results = <<>>
       THEN /\ stats' = EmptyStats
            /\ pc' = "stats_done"
       ELSE /\ stats' = InitialStats(results)
            /\ pc' = "stats_fold"
    /\ folded' = 0
    /\ total_score' = 0
    /\ total_pass_rate' = 0
    /\ UNCHANGED <<tool, minScore, files, results, failures, output, raised, exitCode>>

\* one iteration of `for result in results`
StatsFold ==
    /\ pc = "stats_fold"
    /\ folded < Len(results)
    /\ LET r == results[folded + 1] IN
        IF ~IsDict(r)
        THEN /\ raised' = "AttributeError"
             /\ exitCode' = 1
             /\ pc' = "exit"
             /\ UNCHANGED <<stats, folded, total_score, total_pass_rate>>
        ELSE LET acc == FoldDoc([stats |-> stats, total_score |-> total_score,
                                 total_pass_rate |-> total_pass_rate], r)
             IN  /\ stats' = acc.stats
                 /\ total_score' = acc.total_score
                 /\ total_pass_rate' = acc.total_pass_rate
                 /\ folded' = folded + 1
                 /\ UNCHANGED <<raised, exitCode, pc>>
    /\ UNCHANGED <<tool, minScore, files, results, failures, output>>

\* the loop is over: averages, the sorted model list, return
StatsFinish ==
    /\ pc = "stats_fold"
    /\ folded = Len(results)
    /\ stats' = FinishStats([stats |-> stats, total_score |-> total_score,
                             total_pass_rate |-> total_pass_rate], results)
    /\ pc' = "stats_done"
    /\ UNCHANGED <<tool, minScore, files, results, folded, total_score,
                   total_pass_rate, failures, output, raised, exitCode>>

----------------------------------------------------------------------------
(* analyze-results.py: generate_summary_markdown and main *)

\* round(sum(xs) / len(xs)) if xs else 0
Mean(xs) == IF xs # <<>> THEN Round(SumSeq(xs), Len(xs)) ELSE 0

\* lines 113-120
Banner(rate) ==
    IF rate >= 95 THEN "EXCELLENT"
    ELSE IF rate >= 85 THEN "GOOD"
    ELSE IF rate >= 75 THEN "FAIR"
    ELSE "POOR"

\* line 133
StatusIcon(rate) ==
    IF rate >= 95 THEN "ok" ELSE IF rate >= 85 THEN "warn" ELSE "fail"

\* (variant: the divisor of the sample variance)
SampleDivisor(n) == n - 1

\* The divisor of the variance (line 152): the number of samples
VarianceDivisor(n) == n

\* Lines 150-156.  With n samples of sum S, x - mean = (n*x - S) / n, so the
\* variance is SUM (n*x - S)^2 / (n^2 * d) for the divisor d, and
\* std_dev < c  iff  SUM (n*x - S)^2 < c^2 * n^2 * d.
Consistency(scores) ==
    LET n == Len(scores)
        S == SumSeq(scores)
        sq == SumSeq([i \in 1..n |-> (n * scores[i] - S) * (n * scores[i] - S)])
        d == VarianceDivisor(n)
    IN  IF n > 1
        THEN IF sq < 10 * 10 * n * n * d THEN "High"
             ELSE IF sq < 20 * 20 * n * n * d THEN "Medium"
             ELSE "Low"
        ELSE "N/A"

\* sorted(d.items()): the keys ascending
SortedKeys(d) == SortStrings(d.order)

ModelRow(model, ms) ==
    [model |-> model, total_tests |-> ms.total_tests, passed |-> ms.passed,
     failed |-> ms.failed, avg_score |-> Mean(ms.scores),
     avg_pass_rate |-> Mean(ms.pass_rates),
     status |-> StatusIcon(Mean(ms.pass_rates))]

TestRow(test_id, ts) ==
    [test_id |-> test_id, models_count |-> Cardinality(Range(ts.models)),
     passed |-> ts.passed_count, failed |-> ts.failed_count,
     avg_score |-> Mean(ts.scores), consistency |-> Consistency(ts.scores)]

\* line 191 divides by passed_count + failed_count
FailureRateDivisor(ts) == ts.passed_count + ts.failed_count

\* lines 171-175, then sorted by pass rate
LowPerforming(by_model) ==
    LET all == [i \in 1..Len(by_model.order) |->
                    [model |-> by_model.order[i],
                     pass_rate |-> Mean(by_model.val[by_model.order[i]].pass_rates)]]
        low == SelectSeq(all, LAMBDA e : e.pass_rate < 90)
    IN  StableSort(low, [i \in 1..Len(low) |-> low[i].pass_rate])

\* lines 189-193, then sorted by key -failure_rate.  The rate
\* failed/(passed+failed)*100 is kept as the fraction num/den, and the sort keys
\* are the rates brought to the common denominator of the listed tests.
ProblematicTests(by_test) ==
    LET all == [i \in 1..Len(by_test.order) |->
                    LET ts == by_test.val[by_test.order[i]]
                    IN  [test_id |-> by_test.order[i],
                         num |-> ts.failed_count * 100,
                         den |-> FailureRateDivisor(ts)]]
        bad == SelectSeq(all, LAMBDA e : e.num > 20 * e.den)
        common == ProdSeq([i \in 1..Len(bad) |-> bad[i].den])
        srt == StableSort(bad,
                   [i \in 1..Len(bad) |-> -(bad[i].num * (common \div bad[i].den))])
    IN  [i \in 1..Len(srt) |->
            [test_id |-> srt[i].test_id, failure_rate |-> Round(srt[i].num, srt[i].den)]]

\* the exception generate_summary_markdown raises on st, or "none"
SummaryRaises(st) ==
    IF "overall" \notin st.keys THEN "KeyError"
    ELSE IF /\ st.overall.average_pass_rate < 95
            /\ \E k \in Range(st.by_test.order) : FailureRateDivisor(st.by_test.val[k]) = 0
    THEN "ZeroDivisionError"
    ELSE "none"

\* what the markdown shows (its fixed text and the timestamp left out)
SummaryReport(st) ==
    LET mk == SortedKeys(st.by_model)
        tk == SortedKeys(st.by_test)
    IN  [models_tested |-> st.overall.models_tested,
         total_results |-> st.overall.total_results,
         average_score |-> st.overall.average_score,
         average_pass_rate |-> st.overall.average_pass_rate,
         status |-> Banner(st.overall.average_pass_rate),
         by_model |-> [i \in 1..Len(mk) |-> ModelRow(mk[i], st.by_model.val[mk[i]])],
         by_test |-> [i \in 1..Len(tk) |-> TestRow(tk[i], st.by_test.val[tk[i]])],
         action_required |-> st.overall.average_pass_rate < 95,
         low_performing |->
            IF st.overall.average_pass_rate < 95
            THEN LowPerforming(st.by_model) ELSE <<>>,
         problematic_tests |->
            IF st.overall.average_pass_rate < 95
            THEN ProblematicTests(st.by_test) ELSE <<>>]

\* (variant: main without the check for no results)
SummaryMainUnchecked ==
    /\ pc = "main"
    /\ tool = "summary"
    /\ pc' = "stats_begin"
    /\ UNCHANGED <<tool, minScore, files, results, stats, folded, total_score,
                   total_pass_rate, failures, output, raised, exitCode>>

\* main, lines 231-236: no results is fatal
SummaryMain ==
    /\ pc = "main"
    /\ tool = "summary"
    /\ IF results = <<>>
       THEN /\ pc' = "exit"
            /\ exitCode' = 1
       ELSE /\ pc' = "stats_begin"
            /\ UNCHANGED exitCode
    /\ UNCHANGED <<tool, minScore, files, results, stats, folded, total_score,
                   total_pass_rate, failures, output, raised>>

\* generate_summary_markdown(stats, output): the file is written last
SummaryRender ==
    /\ pc = "stats_done"
    /\ tool = "summary"
    /\ pc' = "exit"
    /\ IF SummaryRaises(stats) # "none"
       THEN /\ raised' = SummaryRaises(stats)
            /\ exitCode' = 1
            /\ UNCHANGED output
       ELSE /\ output' = Some(SummaryReport(stats))
            /\ exitCode' = 0
            /\ UNCHANGED raised
    /\ UNCHANGED <<tool, minScore, files, results, stats, folded, total_score,
                   total_pass_rate, failures>>

----------------------------------------------------------------------------
(* generate-report.py *)

\* lines 33-40 for one test of one result: test['testId'] and result['model']
\* are subscripts, which raise KeyError on a missing key
GroupTest(acc, doc, test) ==
    IF acc.error # "none" THEN acc
    ELSE IF test.testId = None \/ doc.model = None
    THEN [acc EXCEPT !.error = "KeyError"]
    ELSE LET id == test.testId[1]
             entry == [model |-> doc.model[1],
                       score |-> Get(test.score, 0),
                       passed |-> Get(test.passed, FALSE),
                       output |-> Get(test.output, ""),
                       validation |-> Get(test.validation,
                                          Validation(None, None, None, None))]
         IN  [acc EXCEPT !.by_test =
                DictPut(@, id, Append(DictGet(@, id, <<>>), entry))]

RECURSIVE GroupTests(_, _, _)
GroupTests(acc, doc, tests) ==
    IF tests = <<>> THEN acc
    ELSE GroupTests(GroupTest(acc, doc, Head(tests)), doc, Tail(tests))

\* lines 31-40: acc = [error, by_test]
RECURSIVE GroupResults(_, _)
GroupResults(acc, rs) ==
    IF rs = <<>> \/ acc.error # "none" THEN acc
    ELSE IF ~IsDict(Head(rs)) THEN [acc EXCEPT !.error = "AttributeError"]
    ELSE GroupResults(
            GroupTests(acc, Head(rs).doc, Get(Head(rs).doc.tests, <<>>)), Tail(rs))

GroupByTest(rs) == GroupResults([error |-> "none", by_test |-> EmptyDict], rs)

\* lines 55-67: one table row
ComparisonRow(tr) ==
    [model |-> tr.model, score |-> tr.score,
     status |-> IF tr.passed THEN "PASS" ELSE "FAIL",
     expected_match |-> Len(Get(tr.validation.expectedMatches, <<>>)),
     expected_missing |-> Len(Get(tr.validation.expectedMissing, <<>>)),
     forbidden_missing |-> Len(Get(tr.validation.forbiddenMissing, <<>>)),
     forbidden_found |-> Len(Get(tr.validation.forbiddenFound, <<>>))]

\* lines 73-89: the models with missing expected or found forbidden patterns
Issues(test_results) ==
    LET all == [i \in 1..Len(test_results) |->
                    [model |-> test_results[i].model,
                     expected_missing |->
                        Get(test_results[i].validation.expectedMissing, <<>>),
                     forbidden_found |->
                        Get(test_results[i].validation.forbiddenFound, <<>>)]]
    IN  SelectSeq(all, LAMBDA e : e.expected_missing # <<>> \/ e.forbidden_found # <<>>)

\* lines 46-96: one section per test id, ascending
ComparisonReport(by_test) ==
    LET ids == SortedKeys(by_test)
    IN  [i \in 1..Len(ids) |->
            LET trs == by_test.val[ids[i]]
                srt == StableSort(trs, [j \in 1..Len(trs) |-> -trs[j].score])
            IN  [test_id |-> ids[i],
                 rows |-> [j \in 1..Len(srt) |-> ComparisonRow(srt[j])],
                 issues |-> Issues(trs),
                 all_passed |-> Issues(trs) = <<>>]]

\* main of generate-report.py after load_results
ComparisonMain ==
    /\ pc = "main"
    /\ tool = "comparison"
    /\ pc' = "exit"
    /\ IF results = <<>>
       THEN /\ exitCode' = 1
            /\ UNCHANGED <<output, raised>>
       ELSE LET g == GroupByTest(results) IN
            IF g.error # "none"
            THEN /\ raised' = g.error
                 /\ exitCode' = 1
                 /\ UNCHANGED output
            ELSE /\ output' = Some(ComparisonReport(g.by_test))
                 /\ exitCode' = 0
                 /\ UNCHANGED raised
    /\ UNCHANGED <<tool, minScore, files, results, stats, folded, total_score,
                   total_pass_rate, failures>>

----------------------------------------------------------------------------
(* The runs *)

Init ==
    /\ tool \in Tools
    /\ minScore \in (IF tool = "threshold" THEN MinScores ELSE {90})
    /\ files = <<>>
    /\ results = <<>>
    /\ pc = "load"
    /\ stats = EmptyStats
    /\ folded = 0
    /\ total_score = 0
    /\ total_pass_rate = 0
    /\ failures = <<>>
    /\ output = None
    /\ raised = "none"
    /\ exitCode = 0

Next ==
    \/ LoadFile
    \/ LoadReturn
    \/ ThresholdMain
    \/ SummaryMain
    \/ StatsBegin
    \/ StatsFold
    \/ StatsFinish
    \/ SummaryRender
    \/ ComparisonMain

Spec == Init /\ [][Next]_vars

\* calculate_stats, then generate_summary_markdown, called on a list of documents
InitStats ==
    /\ tool = "summary"
    /\ minScore = 90
    /\ files = <<>>
    /\ results \in StatsInputs
    /\ pc = "stats_begin"
    /\ stats = EmptyStats
    /\ folded = 0
    /\ total_score = 0
    /\ total_pass_rate = 0
    /\ failures = <<>>
    /\ output = None
    /\ raised = "none"
    /\ exitCode = 0

NextStats ==
    \/ StatsBegin
    \/ StatsFold
    \/ StatsFinish
    \/ SummaryRender

SpecStats == InitStats /\ [][NextStats]_vars

----------------------------------------------------------------------------
(* Properties of the threshold gate *)

ModelOf(r) == IF r.doc.model = None THEN "unknown" ELSE r.doc.model[1]
AverageScoreOf(r) == IF r.doc.averageScore = None THEN 0 ELSE r.doc.averageScore[1]
PassRateOf(r) == IF r.doc.passRate = None THEN 0 ELSE r.doc.passRate[1]

\* how many violations document i owes, and how many the documents before it owe
Owed(i) ==
    (IF AverageScoreOf(results[i]) < minScore THEN 1 ELSE 0)
    + (IF PassRateOf(results[i]) < minScore THEN 1 ELSE 0)
OwedBefore(i) == SumSeq([j \in 1..(i - 1) |-> Owed(j)])

GateReturned ==
    /\ pc = "exit"
    /\ tool = "threshold"
    /\ results # <<>>
    /\ raised = "none"

\* C1: check_thresholds returns, document by document in input order, a "score"
\* violation iff averageScore (0 when absent) is strictly below minScore, then a
\* "pass_rate" violation iff passRate (0 when absent) is strictly below minScore;
\* each carries the document's model ("unknown" when absent), the offending
\* value and threshold = minScore; a value equal to minScore yields none.
C1_Violations ==
    GateReturned =>
        /\ Len(failures) = OwedBefore(Len(results) + 1)
        /\ \A i \in 1..Len(results) :
            LET r == results[i] IN
            /\ Owed(i) \in {0, 1, 2}
            /\ AverageScoreOf(r) < minScore =>
                failures[OwedBefore(i) + 1] =
                    [model |-> ModelOf(r), type |-> "score",
                     value |-> AverageScoreOf(r), threshold |-> minScore]
            /\ PassRateOf(r) < minScore =>
                failures[OwedBefore(i) + Owed(i)] =
                    [model |-> ModelOf(r), type |-> "pass_rate",
                     value |-> PassRateOf(r), threshold |-> minScore]

\* a gate run over two documents: the first, without a model, owes both
\* violations, the second has its averageScore equal to minScore and owes one
C1_Witness ==
    /\ GateReturned
    /\ Len(results) = 2
    /\ results[1].doc.model = None
    /\ Owed(1) = 2
    /\ results[2].doc.averageScore = Some(minScore)
    /\ Len(failures) = 3
    /\ failures[3].type = "pass_rate"

\* C2: the gate exits 1 iff at least one document was loaded and at least one
\* violation exists; it exits 0 when nothing was loaded (no violation listed)
\* and when the violation list is empty.
C2_ExitCode ==
    (pc = "exit" /\ tool = "threshold") =>
        /\ exitCode = 1 <=> (results # <<>> /\ failures # <<>>)
        /\ exitCode \in {0, 1}
        /\ results = <<>> => failures = <<>>

----------------------------------------------------------------------------
(* Properties of load_results and of the runs *)

IsDocument(f) == f.kind = "object"

\* C3: load_results returns exactly the discovered files that hold a
\* ResultDocument, in discovery order; a malformed or unreadable file, and one
\* holding valid JSON that is no document mapping, is skipped, and none of them
\* aborts the run.
C3_OnlyDocumentsLoaded ==
    /\ results = SelectSeq(files, IsDocument)
    /\ raised # "AttributeError"

\* C7: in the summary and the comparison tool the output file is written only
\* after a document was loaded: with no results the run ends with exit code 1,
\* the file untouched, and neither aggregation nor rendering entered.
C7_NoOutputWithoutResults ==
    tool \in {"summary", "comparison"} =>
        /\ output # None => \E i \in 1..Len(results) : IsDocument(results[i])
        /\ results = <<>> =>
            /\ pc \in {"load", "main", "exit"}
            /\ output = None
            /\ stats = EmptyStats
            /\ pc = "exit" => exitCode = 1

\* a run of one of the two tools found files, loaded nothing and has ended
C7_Witness ==
    /\ tool \in {"summary", "comparison"}
    /\ pc = "exit"
    /\ files # <<>>
    /\ results = <<>>
    /\ exitCode = 1
    /\ output = None

\* C9: generate_comparison_report completes and writes the report for every
\* non-empty sequence of ResultDocuments, whichever of model, tests, testId,
\* score, passed, output, validation is absent.
C9_ComparisonNeverFails ==
    (pc = "exit" /\ tool = "comparison" /\ results # <<>> /\ AllDicts(results)) =>
        /\ raised = "none"
        /\ output # None
        /\ exitCode = 0

----------------------------------------------------------------------------
(* Properties of calculate_stats *)

StatsReturned == pc = "stats_done" /\ results # <<>>

ModelsOf(rs) == {ModelOf(rs[i]) : i \in 1..Len(rs)}

Ascending(s) == \A i \in 1..(Len(s) - 1) : StrLt(s[i], s[i + 1])

\* C4: for a non-empty sequence of documents, total_results is its length,
\* models_tested is the ascending duplicate-free sequence of the documents'
\* models (absent counted as "unknown"), the keys of by_model are the models
\* tested, each document is counted in the bucket of its model and in no other,
\* and the lengths of the scores sequences sum to total_results.
C4_Totals ==
    StatsReturned =>
        LET o == stats.overall
            bm == stats.by_model
        IN  /\ o.total_results = Len(results)
            /\ Ascending(o.models_tested)
            /\ Range(o.models_tested) = ModelsOf(results)
            /\ Range(bm.order) = Range(o.models_tested)
            /\ \A m \in Range(bm.order) :
                Len(bm.val[m].scores) =
                    Cardinality({i \in 1..Len(results) : ModelOf(results[i]) = m})
            /\ SumSeq([i \in 1..Len(bm.order) |-> Len(bm.val[bm.order[i]].scores)])
                    = o.total_results

\* two documents, the first without a model, the second of a model that sorts
\* before "unknown"
C4_Witness ==
    /\ StatsReturned
    /\ Len(results) = 2
    /\ results[1].doc.model = None
    /\ results[2].doc.model = Some("claude")
    /\ stats.overall.models_tested = <<"claude", "unknown">>

IndexPermutations(n) == {p \in [1..n -> 1..n] : \A i, j \in 1..n : p[i] = p[j] => i = j}
Permuted(rs, p) == [i \in 1..Len(rs) |-> rs[p[i]]]

SameBag(s, t) ==
    /\ Len(s) = Len(t)
    /\ \A v \in Range(s) \cup Range(t) :
        Cardinality({i \in 1..Len(s) : s[i] = v}) = Cardinality({i \in 1..Len(t) : t[i] = v})

\* the totals of two results of calculate_stats agree
SameTotals(a, b) ==
    /\ a.keys = b.keys
    /\ "overall" \in a.keys =>
        /\ a.overall = b.overall
        /\ Range(a.by_model.order) = Range(b.by_model.order)
        /\ \A m \in Range(a.by_model.order) :
            LET x == a.by_model.val[m]
                y == b.by_model.val[m]
            IN  /\ x.total_tests = y.total_tests
                /\ x.passed = y.passed
                /\ x.failed = y.failed
                /\ SameBag(x.scores, y.scores)
                /\ SameBag(x.pass_rates, y.pass_rates)
                /\ SumSeq(x.scores) = SumSeq(y.scores)
                /\ Mean(x.scores) = Mean(y.scores)
                /\ SumSeq(x.pass_rates) = SumSeq(y.pass_rates)
                /\ Mean(x.pass_rates) = Mean(y.pass_rates)
        /\ Range(a.by_test.order) = Range(b.by_test.order)
        /\ \A t \in Range(a.by_test.order) :
            LET x == a.by_test.val[t]
                y == b.by_test.val[t]
            IN  /\ x.passed_count = y.passed_count
                /\ x.failed_count = y.failed_count
                /\ SameBag(x.scores, y.scores)
                /\ SameBag(x.models, y.models)
                /\ SumSeq(x.scores) = SumSeq(y.scores)
                /\ Mean(x.scores) = Mean(y.scores)

C6_EmptyInput ==
    (pc = "stats_done" /\ results = <<>>) =>
        /\ stats.keys = {"by_model", "by_test", "overall"}
        /\ stats.overall.average_score = 0
        /\ stats.overall.average_pass_rate = 0
        /\ stats.overall.total_results = 0
        /\ stats.overall.models_tested = <<>>
        /\ stats.by_model.order = <<>>
        /\ stats.by_test.order = <<>>

\* the TestOutcomes of the documents folded so far
RECURSIVE Concat(_)
Concat(ss) == IF ss = <<>> THEN <<>> ELSE Head(ss) \o Concat(Tail(ss))
FoldedTests ==
    Concat([i \in 1..folded |->
        IF results[i].doc.tests = None THEN <<>> ELSE results[i].doc.tests[1]])

TestIdOf(t) == IF t.testId = None THEN "unknown" ELSE t.testId[1]

\* C10: after any prefix is folded, every by_test bucket has
\* len(models) = len(scores) = passed_count + failed_count >= 1; the buckets'
\* counts sum to the number of TestOutcomes folded; a test without testId is in
\* the "unknown" bucket and a test without passed counts as failed; so the
\* failure ratio of the recommendations never divides by zero.
C10_TestBuckets ==
    /\ raised # "ZeroDivisionError"
    /\ (pc \in {"stats_fold", "stats_done", "exit"} /\ "by_test" \in stats.keys) =>
        LET bt == stats.by_test
            ft == FoldedTests
            ids == {TestIdOf(ft[i]) : i \in 1..Len(ft)}
        IN  /\ Range(bt.order) = ids
            /\ \A k \in Range(bt.order) :
                LET b == bt.val[k] IN
                /\ Len(b.models) = Len(b.scores)
                /\ Len(b.scores) = b.passed_count + b.failed_count
                /\ b.passed_count + b.failed_count >= 1
                /\ FailureRateDivisor(b) # 0
                /\ b.passed_count =
                    Cardinality({i \in 1..Len(ft) :
                        TestIdOf(ft[i]) = k /\ ft[i].passed = Some(TRUE)})
                /\ b.failed_count =
                    Cardinality({i \in 1..Len(ft) :
                        TestIdOf(ft[i]) = k /\ ft[i].passed # Some(TRUE)})
            /\ SumSeq([i \in 1..Len(bt.order) |->
                    bt.val[bt.order[i]].passed_count + bt.val[bt.order[i]].failed_count])
                = Len(ft)

\* the recommendations were rendered for a prefix-built by_test holding a
\* bucket "unknown" of a test without testId and without passed
C10_Witness ==
    /\ pc = "exit"
    /\ output # None
    /\ output[1].action_required
    /\ Len(results) = 2
    /\ "unknown" \in Range(stats.by_test.order)
    /\ "t1" \in Range(stats.by_test.order)
    /\ stats.by_test.val["unknown"].failed_count = 2
    /\ output[1].problematic_tests # <<>>

----------------------------------------------------------------------------
(* Properties of the summary's per-test table *)

\* n^2 times the population variance of xs: n * SUM x^2 - (SUM x)^2
ScaledVariance(xs) ==
    Len(xs) * SumSeq([i \in 1..Len(xs) |-> xs[i] * xs[i]]) - SumSeq(xs) * SumSeq(xs)

ExpectedLabel(xs) ==
    IF Len(xs) < 2 THEN "N/A"
    ELSE IF ScaledVariance(xs) < 100 * Len(xs) * Len(xs) THEN "High"
    ELSE IF ScaledVariance(xs) < 400 * Len(xs) * Len(xs) THEN "Medium"
    ELSE "Low"

\* C8: a test's consistency label depends on its scores only: "N/A" below 2
\* samples, else by the population standard deviation s (divisor = number of
\* samples): "High" iff s < 10, "Medium" iff 10 <= s < 20, "Low" iff s >= 20,
\* that is variance < 100, in [100, 400), >= 400; [90,90,90] is High, [50,100]
\* is Low, [40,60] is Medium.
C8_Consistency ==
    (pc = "exit" /\ output # None) =>
        \A i \in 1..Len(output[1].by_test) :
            LET row == output[1].by_test[i]
                xs == stats.by_test.val[row.test_id].scores
            IN  /\ row.consistency = ExpectedLabel(xs)
                /\ xs = <<90, 90, 90>> => row.consistency = "High"
                /\ xs = <<50, 100>> => row.consistency = "Low"
                /\ xs = <<40, 60>> => row.consistency = "Medium"

\* the table was rendered for a test whose samples are [40, 60]: the standard
\* deviation is exactly 10
C8_Witness ==
    /\ pc = "exit"
    /\ output # None
    /\ \E i \in 1..Len(output[1].by_test) :
        /\ stats.by_test.val[output[1].by_test[i].test_id].scores = <<40, 60>>
        /\ output[1].by_test[i].consistency = "Medium"

====
